---- MODULE Spec2Model ----
(***************************************************************************)
(* Quantum-tunneling simulation of diu-os/physics-tutorial:                *)
(*   QuantumTunneling/index.tsx      statistics, reset and theory effects  *)
(*   QuantumTunneling/Particles.tsx  particle lifecycle (useFrame)         *)
(*   QuantumTunneling/hooks/useTunneling.ts  WKB physics                   *)
(*                                                                         *)
(* Fixed-point units.  Energies and widths are in tenths (5 eV = 50,       *)
(* 1.5 nm = 15).  A position x is in units of 1/4000, so that the product  *)
(* speed * timeScale * 0.7 is exact for the speeds drawn.  Times are in    *)
(* milliseconds, opacities in thousandths, probabilities in 1/PScale.      *)
(*                                                                         *)
(* React scheduling.  A change of props is committed by Render; the        *)
(* passive effects (useEffect) that the commit schedules run later, in     *)
(* RunEffects, children before parents.  An animation frame (useFrame)     *)
(* may run between the two.  React flushes pending passive effects before  *)
(* it renders again, so Render waits for RunEffects.  setStats updaters    *)
(* are applied in the order they are enqueued.                             *)
(*                                                                         *)
(* Specifications.  Spec: frames with changes of the physics triple.       *)
(* SpecDisplay: frames with changes of slowMotion and of a display toggle. *)
(* SpecCap: a spawn attempt in every frame up to the particle cap, and a    *)
(* frame of exactly one spawn interval.  SpecStats: the statistics         *)
(* callbacks in any order.  SpecPhysics: one call of the physics functions *)
(* for each triple of a grid of arguments.  SpecWave: WaveVisualization,   *)
(* its frames and its renders with other props.  SpecDegenerate: mounted   *)
(* with non-positive barrierWidth, barrierHeight or intensity.  SpecLive:  *)
(* frames under weak fairness, for the life of a particle.  SpecTrail:     *)
(* frames with                                                             *)
(* the trail buffers of the particles.                                     *)
(***************************************************************************)
EXTENDS Integers, Sequences, FiniteSets, TLC

\* ------------------------------------------------------------------ bounds
\* Number of particles one behaviour of Spec or SpecDisplay may spawn.
MaxSpawns == 2
\* Number of prop changes in one behaviour, not counting the change that
\* turns the particle rate down to 0.
MaxRenders == 1
\* Number of frames that may run between a commit and its passive effects.
MaxLag == 1
\* Number of particles one behaviour of SpecCap may spawn.
MaxSpawnsCap == 84
\* Number of frames WaveVisualization sees in one behaviour of SpecWave.
MaxWaveFrames == 3
\* Number of particles one behaviour of SpecTrail may spawn.
MaxSpawnsTrail == 1
\* Number of positions one behaviour of SpecTrail may push to one trail.
MaxTrailHistory == 22
\* Number of callbacks one behaviour of SpecStats may deliver.
MaxCalls == 5

\* ------------------------------------------------------- program constants
MAX_PARTICLES == 80
HIT_FLASH_DURATION == 100
TRAIL_LENGTH == 20
\* ------------------------------------------------------------- fixed point
XUnit == 4 * 1000
PScale == 10 * 1000
SOURCE_X == (-8) * XUnit
BARRIER_X == 0 * XUnit
TARGET_X == 8 * XUnit
\* exp(-1) in 1/PScale
ExpMinusOne == 3679
\* Math.exp underflows to 0 only past this argument (in hundredths)
ExpUnderflow == 74500
\* now - lastSpawnRef.current is kept up to SinceCap; beyond it the comparison
\* with 1000 / intensity has the same answer for every intensity that is 0 or
\* at least SlowestRate
SlowestRate == 25
SinceCap == 1000 \div SlowestRate + 1

Min(a, b) == IF a < b THEN a ELSE b
Max(a, b) == IF a > b THEN a ELSE b

\* ---------------------------------------------------------------- physics
\* IEEE doubles outside the fixed-point range.  HugeHeight stands for a finite
\* barrier height above 0.0381 * Number.MAX_VALUE (about 6.8e306 eV), for
\* which (barrierHeight - energy) / hbar2_2m overflows; Infinity and NaN are
\* the doubles of those names.
HugeHeight == 1000000000
Infinity == 2000000000
NaN == 0 - 2000000000

\* a >= b in doubles: false when either side is NaN
Geq(a, b) == a # NaN /\ b # NaN /\ a >= b

\* a - b in doubles, for a finite a
Minus(a, b) == IF b = NaN THEN NaN ELSE a - b

\* a * b in doubles: Infinity * 0 is NaN
Times(a, b) ==
  IF a = NaN \/ b = NaN THEN NaN
  ELSE IF a = Infinity \/ b = Infinity
       THEN IF a = 0 \/ b = 0 THEN NaN
            ELSE IF a < 0 \/ b < 0 THEN 0 - Infinity
            ELSE Infinity
  ELSE a * b

\* Math.sqrt, rounded down
ISqrt(n) == CHOOSE r \in 0..600 : r * r <= n /\ (r + 1) * (r + 1) > n

\* exp(-f/100) in 1/PScale for 0 <= f < 100 (Taylor series)
ExpFrac(f) ==
  PScale - 100 * f + (f * f) \div 2 - (f * f * f) \div 600
    + (f * f * f * f) \div 240000
    - (((f * f * f * f) \div 240000) * f) \div 500

RECURSIVE ExpWhole(_)
\* exp(-n) in 1/PScale for a natural n
ExpWhole(n) == IF n = 0 THEN PScale
               ELSE (ExpWhole(n - 1) * ExpMinusOne) \div PScale

\* Math.exp(-xc/100) in 1/PScale.  A double stays positive until the argument
\* passes ExpUnderflow, so the fixed-point value is kept at least 1 up to there.
ExpNeg(xc) ==
  IF xc = NaN THEN NaN
  ELSE IF xc = 0 - Infinity THEN Infinity
  ELSE IF xc <= 0 THEN PScale + (0 - xc)
  ELSE IF xc > ExpUnderflow THEN 0
  ELSE IF xc \div 100 > 12 THEN 1
  ELSE Max(1, (ExpWhole(xc \div 100) * ExpFrac(xc % 100)) \div PScale)

\* Math.max(0, Math.min(1, T)); Math.min and Math.max return NaN for NaN
Clamp01(t) == IF t = NaN THEN NaN ELSE Max(0, Min(PScale, t))

\* kappa = Math.sqrt((barrierHeight - energy) / hbar2_2m), in tenths
Kappa(energy, barrierHeight) ==
  IF barrierHeight = HugeHeight THEN Infinity
  ELSE ISqrt(((barrierHeight - energy) * 100000) \div 381)

\* mutant: a tie between energy and barrier height is not classical
useTunnelingStrict(energy, barrierHeight, barrierWidth) ==
  LET isClassical == energy > barrierHeight
      kappa == IF isClassical THEN 0 ELSE Kappa(energy, barrierHeight)
      probability == IF isClassical THEN PScale
                     ELSE Clamp01(ExpNeg(Times(Times(2, kappa), barrierWidth)))
  IN  [isClassical |-> isClassical, kappa |-> kappa,
       probability |-> probability,
       reflectionProbability |-> Minus(PScale, probability)]

\* useTunneling(energy, barrierHeight, barrierWidth): the fields the
\* simulation reads
useTunneling(energy, barrierHeight, barrierWidth) ==
  LET isClassical == energy >= barrierHeight
      kappa == IF isClassical THEN 0 ELSE Kappa(energy, barrierHeight)
      probability == IF isClassical THEN PScale
                     ELSE Clamp01(ExpNeg(Times(Times(2, kappa), barrierWidth)))
  IN  [isClassical |-> isClassical, kappa |-> kappa,
       probability |-> probability,
       reflectionProbability |-> Minus(PScale, probability)]

\* mutant: the exponent is kappa * L, the decay of the amplitude
calculateTunnelingAmplitude(energy, barrierHeight, barrierWidth) ==
  IF energy >= barrierHeight THEN PScale
  ELSE Clamp01(ExpNeg(Times(Kappa(energy, barrierHeight), barrierWidth)))

calculateTunnelingProbability(energy, barrierHeight, barrierWidth) ==
  IF energy >= barrierHeight THEN PScale
  ELSE Clamp01(ExpNeg(Times(Times(2, Kappa(energy, barrierHeight)),
                            barrierWidth)))

\* ------------------------------------------------------------------ inputs
\* (particleEnergy, barrierHeight, barrierWidth) values the UI is moved
\* between: the default 5 eV / 8 eV / 1.5 nm (T is positive but tiny: only
\* the smallest draw tunnels), an energy above the barrier, a barrier below
\* the energy (both classical) and the narrowest barrier, 0.1 nm (T = 0.17).
Energies == {50, 100}
Heights == {40, 80}
Widths == {1, 15}
\* particles per second: the default, and 0, the degenerate rate at which
\* nothing spawns
Intensities == {0, 25}
\* frame time deltas in ms: 40 ms, exactly the spawn interval at the default
\* rate (no spawn is due after one such frame), and a frame after a stall
Deltas == {40, 256}
\* Math.random() in 1/PScale: the smallest and the largest value
RandDraws == {0, PScale - 1}
\* speed = 0.06 + Math.random() * 0.02 for Math.random() = 0
SpeedDraws == {240}

\* TunnelingParams; showTrails stands for the display toggles
ParamSpace ==
  [particleEnergy : Energies, barrierHeight : Heights, barrierWidth : Widths,
   intensity : Intensities, slowMotion : BOOLEAN, showTrails : BOOLEAN]

DEFAULT_TUNNELING_PARAMS ==
  [particleEnergy |-> 50, barrierHeight |-> 80, barrierWidth |-> 15,
   intensity |-> 25, slowMotion |-> FALSE, showTrails |-> TRUE]

\* the dependency triple of the reset and discard effects
Triple(prm) == <<prm.particleEnergy, prm.barrierHeight, prm.barrierWidth>>

TheoreticalT(prm) ==
  calculateTunnelingProbability(prm.particleEnergy, prm.barrierHeight,
                                prm.barrierWidth)

Physics(prm) ==
  useTunneling(prm.particleEnergy, prm.barrierHeight, prm.barrierWidth)

\* ------------------------------------------------------------------- state
VARIABLES
  params,      \* props of the last committed render
  particles,   \* particlesRef.current
  sinceSpawn,  \* Date.now() - lastSpawnRef.current at the last frame
  stats,       \* the stats state of QuantumTunneling
  prevRef,     \* prevRef.current
  pending,     \* passive effects scheduled by the last commit, not yet run
  spawns,      \* history: number of particles spawned so far
  renders,     \* history: number of prop changes so far
  lag,         \* history: frames run since the last commit, while pending
  lastChange,  \* history: kind of the last prop change
  countedCfgs, \* history: spawn triples of the particles counted in stats
               \* since the last reset
  gone,        \* history: the particles removed by the removal step of a
               \* frame, as they were when removed (without id and position)
  physics,     \* the physics functions on their own: the arguments of a
               \* call and, once it has returned, its results
  reported,    \* history: the snapshots passed to onStatsUpdate, each as its
               \* tunnelingProbability with T of the props it was reported
               \* under
  sinceDrop,   \* history: ms since the last spawn attempt that added nothing
               \* (SinceCap if none or longer ago)
  wave,        \* WaveVisualization: its props, timeRef.current, the number
               \* of frames it has seen and the memoized curves
  transitions, \* history: how many particles have turned back at the barrier
               \* and how many have reached targetX since the statistics
               \* were last reset
  trail        \* the trail buffers, followed in SpecTrail only: for the id of
               \* a particle its trailPoints (x), whether it has a trailMesh
               \* and, as history, every position ever pushed

vars == <<params, particles, sinceSpawn, stats, prevRef, pending,
          spawns, renders, lag, lastChange, countedCfgs, gone, physics,
          reported, sinceDrop, wave, trail, transitions>>

createEmptyStats ==
  [totalParticles |-> 0, tunneled |-> 0, reflected |-> 0,
   tunnelingProbability |-> 0,
   experimentalProbability |-> [num |-> 0, den |-> 1]]

\* onStatsUpdate?.(stats) in a commit with the props prm
Snapshot(s, prm) ==
  [tunnelingProbability |-> s.tunnelingProbability,
   theoreticalT |-> TheoreticalT(prm)]

\* ----------------------------------------------------------- wave overlay
\* a > b in doubles: false when either side is NaN
Gt(a, b) == a # NaN /\ b # NaN /\ a > b

\* the sampled domain [-10, 10] and the thresholds 0.01 and 0.001
WaveDomainMin == (-10) * XUnit
WaveDomainMax == 10 * XUnit
ReflectedVisible == PScale \div 100
TransmittedVisible == PScale \div 1000

\* number of points of for (let x = from; x <= to; x += step)
Points(from, to, step) == IF to < from THEN 0 ELSE (to - from) \div step + 1

\* mutant: the transmitted curve is sampled whatever the probability
WaveCurvesAlwaysTransmitted(a, time) ==
  LET phys == useTunneling(a[1], a[2], a[3])
      left == BARRIER_X - (a[3] * XUnit) \div 20
      right == BARRIER_X + (a[3] * XUnit) \div 20
  IN  [time |-> time,
       incident |-> Points(WaveDomainMin, left, (15 * XUnit) \div 100),
       reflected |->
         IF ~phys.isClassical /\ Gt(phys.reflectionProbability, ReflectedVisible)
         THEN Points(WaveDomainMin, left, (15 * XUnit) \div 100) ELSE 0,
       evanescent |->
         IF ~phys.isClassical /\ Gt(phys.kappa, 0)
         THEN Points(left, right, (5 * XUnit) \div 100) ELSE 0,
       transmitted |-> Points(right, WaveDomainMax, (15 * XUnit) \div 100),
       incidentAmpSq |-> PScale,
       transmittedAmpSq |-> phys.probability]

\* the useMemo body of WaveVisualization for the props a (energy,
\* barrierHeight, barrierWidth) and time = timeRef.current: the number of
\* points of each curve, the time they are computed from and the squares of
\* the amplitudes relative to the incident one (in 1/PScale)
WaveCurves(a, time) ==
  LET phys == useTunneling(a[1], a[2], a[3])
      left == BARRIER_X - (a[3] * XUnit) \div 20
      right == BARRIER_X + (a[3] * XUnit) \div 20
  IN  [time |-> time,
       incident |-> Points(WaveDomainMin, left, (15 * XUnit) \div 100),
       reflected |->
         IF ~phys.isClassical /\ Gt(phys.reflectionProbability, ReflectedVisible)
         THEN Points(WaveDomainMin, left, (15 * XUnit) \div 100) ELSE 0,
       evanescent |->
         IF ~phys.isClassical /\ Gt(phys.kappa, 0)
         THEN Points(left, right, (5 * XUnit) \div 100) ELSE 0,
       transmitted |->
         IF Gt(phys.probability, TransmittedVisible)
         THEN Points(right, WaveDomainMax, (15 * XUnit) \div 100) ELSE 0,
       incidentAmpSq |-> PScale,
       transmittedAmpSq |-> phys.probability]

\* WaveVisualization is mounted with the props a: timeRef = useRef(0), the
\* curves are computed in the first render
WaveMount(a) ==
  [args |-> a, timeRef |-> 0, frames |-> 0, curves |-> WaveCurves(a, 0)]

\* QuantumTunneling and its Particles are mounted with the props prm: empty
\* refs and statistics, every passive effect scheduled.
NoTransitions == [reflected |-> 0, tunneled |-> 0]

Mount(prm) ==
  /\ params = prm
  /\ particles = << >>
  /\ sinceSpawn = SinceCap
  /\ stats = createEmptyStats
  /\ prevRef = Triple(prm)
  /\ pending = {"discard", "reset", "theory", "report"}
  /\ spawns = 0
  /\ renders = 0
  /\ lag = 0
  /\ lastChange = "none"
  /\ countedCfgs = {}
  /\ gone = {}
  /\ reported = {}
  /\ sinceDrop = SinceCap
  /\ wave = WaveMount(Triple(prm))
  /\ trail = << >>
  /\ transitions = NoTransitions

\* no call of the physics functions is under observation
NoCall == [args |-> <<0, 0, 0>>, done |-> FALSE]

\* the tunneling experiment is opened with its default parameters
Init == Mount(DEFAULT_TUNNELING_PARAMS) /\ physics = NoCall

\* --------------------------------------------------------------- statistics
handleParticleTunneled(prev) ==
  LET newTunneled == prev.tunneled + 1
      newTotal == prev.totalParticles + 1
  IN  [prev EXCEPT !.totalParticles = newTotal,
                   !.tunneled = newTunneled,
                   !.experimentalProbability =
                      [num |-> newTunneled, den |-> newTotal]]

\* mutant: the reflected handler leaves the ratio as it was
handleParticleReflectedStaleRatio(prev) ==
  [prev EXCEPT !.totalParticles = prev.totalParticles + 1,
               !.reflected = prev.reflected + 1]

\* mutant: the reflected handler forgets the total
handleParticleReflectedNoTotal(prev) ==
  [prev EXCEPT !.reflected = prev.reflected + 1]

\* mutant: the reflected callback is wired to the tunneled counter
handleParticleReflectedAsTunneled(prev) ==
  [prev EXCEPT !.totalParticles = prev.totalParticles + 1,
               !.tunneled = prev.tunneled + 1,
               !.experimentalProbability =
                  [num |-> prev.tunneled + 1,
                   den |-> prev.totalParticles + 1]]

handleParticleReflected(prev) ==
  LET newTotal == prev.totalParticles + 1
  IN  [prev EXCEPT !.totalParticles = newTotal,
                   !.reflected = prev.reflected + 1,
                   !.experimentalProbability =
                      [num |-> prev.tunneled, den |-> newTotal]]

RECURSIVE ApplyCallbacks(_, _)
\* the setStats updaters enqueued during one frame, applied in order
ApplyCallbacks(s, evs) ==
  IF evs = << >> THEN s
  ELSE ApplyCallbacks(
         IF Head(evs) = "tunneled" THEN handleParticleTunneled(s)
         ELSE IF Head(evs) = "reflected" THEN handleParticleReflected(s)
         ELSE s,
         Tail(evs))

\* ---------------------------------------------------------------- particles
barrierLeft(prm) == BARRIER_X - (prm.barrierWidth * XUnit) \div 20
barrierRight(prm) == BARRIER_X + (prm.barrierWidth * XUnit) \div 20

\* speed * timeScale (timeScale = slowMotion ? 0.25 : 1)
Advance(speed, slowMotion) == IF slowMotion THEN speed \div 4 ELSE speed

\* dt = delta * timeScale
ScaledDt(delta, slowMotion) == IF slowMotion THEN delta \div 4 ELSE delta

\* mutant: the draw compared the wrong way round, the classical case dropped
NewParticleFlipped(id, prm, u, speed) ==
  [id |-> id, x |-> SOURCE_X + XUnit \div 2, phase |-> "incident",
   willTunnel |-> u > Physics(prm).probability, speed |-> speed,
   hitFlashDone |-> FALSE, hitTime |-> 0, opacity |-> 1000,
   cfg |-> Triple(prm), drewBelow |-> u < Physics(prm).probability,
   path |-> <<"incident">>, reflectedCalls |-> 0, tunneledCalls |-> 0]

NewParticle(id, prm, u, speed) ==
  LET phys == Physics(prm)
  IN  [id |-> id,
       x |-> SOURCE_X + XUnit \div 2,
       phase |-> "incident",
       willTunnel |-> (phys.isClassical \/ u < phys.probability),
       speed |-> speed,
       hitFlashDone |-> FALSE,
       hitTime |-> 0,
       opacity |-> 1000,
       \* history: the triple at spawn, whether Math.random() was below the
       \* probability of that triple, the phases taken so far and the
       \* callbacks invoked so far
       cfg |-> Triple(prm),
       drewBelow |-> u < phys.probability,
       path |-> <<"incident">>,
       reflectedCalls |-> 0,
       tunneledCalls |-> 0]

\* mutant: the cap test is off by one
spawnParticleOffByOne(ps, id, prm, u, speed) ==
  IF Len(ps) > MAX_PARTICLES THEN ps
  ELSE Append(ps, NewParticle(id, prm, u, speed))

spawnParticle(ps, id, prm, u, speed) ==
  IF Len(ps) >= MAX_PARTICLES THEN ps
  ELSE Append(ps, NewParticle(id, prm, u, speed))

\* mutant: every particle enters the barrier, whatever its outcome
UpdateIncidentIgnoresOutcome(p, prm) ==
  LET x1 == p.x + Advance(p.speed, prm.slowMotion)
  IN  IF x1 >= barrierLeft(prm)
      THEN [p |-> [p EXCEPT !.x = x1, !.phase = "barrier"],
            ev |-> "none", remove |-> FALSE]
      ELSE [p |-> [p EXCEPT !.x = x1], ev |-> "none", remove |-> FALSE]

\* mutant: the branch at the barrier entry is taken from the regime current
\* in this frame, not from the outcome committed at spawn
UpdateIncidentCurrentPhysics(p, prm) ==
  LET x1 == p.x + Advance(p.speed, prm.slowMotion)
  IN  IF x1 >= barrierLeft(prm)
      THEN IF Physics(prm).isClassical
           THEN [p |-> [p EXCEPT !.x = x1, !.phase = "barrier"],
                 ev |-> "none", remove |-> FALSE]
           ELSE [p |-> [p EXCEPT !.x = x1, !.phase = "reflected"],
                 ev |-> "reflected", remove |-> FALSE]
      ELSE [p |-> [p EXCEPT !.x = x1], ev |-> "none", remove |-> FALSE]

\* mutant: the particle turns back at the barrier without the callback
UpdateIncidentSilent(p, prm) ==
  LET x1 == p.x + Advance(p.speed, prm.slowMotion)
  IN  IF x1 >= barrierLeft(prm)
      THEN [p |-> [p EXCEPT !.x = x1,
                            !.phase = IF p.willTunnel THEN "barrier"
                                      ELSE "reflected"],
            ev |-> "none", remove |-> FALSE]
      ELSE [p |-> [p EXCEPT !.x = x1], ev |-> "none", remove |-> FALSE]

\* the incident branch; ev is the callback it invokes
UpdateIncident(p, prm) ==
  LET x1 == p.x + Advance(p.speed, prm.slowMotion)
  IN  IF x1 >= barrierLeft(prm)
      THEN IF p.willTunnel
           THEN [p |-> [p EXCEPT !.x = x1, !.phase = "barrier"],
                 ev |-> "none", remove |-> FALSE]
           ELSE [p |-> [p EXCEPT !.x = x1, !.phase = "reflected"],
                 ev |-> "reflected", remove |-> FALSE]
      ELSE [p |-> [p EXCEPT !.x = x1], ev |-> "none", remove |-> FALSE]

UpdateBarrier(p, prm) ==
  LET x1 == p.x + (Advance(p.speed, prm.slowMotion) * 7) \div 10
  IN  IF x1 >= barrierRight(prm)
      THEN [p |-> [p EXCEPT !.x = x1, !.phase = "transmitted",
                            !.opacity = 1000],
            ev |-> "none", remove |-> FALSE]
      ELSE [p |-> [p EXCEPT !.x = x1], ev |-> "none", remove |-> FALSE]

\* mutant: the hitFlashDone guard is missing
UpdateTransmittedNoFlashGuard(p, prm, dt) ==
  LET x1 == p.x + Advance(p.speed, prm.slowMotion)
      hitTime1 == p.hitTime + dt
      fading == hitTime1 > HIT_FLASH_DURATION
      opacity1 == IF fading THEN p.opacity - dt * 4 ELSE p.opacity
  IN  IF x1 >= TARGET_X
      THEN [p |-> [p EXCEPT !.x = x1, !.hitFlashDone = TRUE,
                            !.hitTime = hitTime1, !.opacity = opacity1],
            ev |-> "tunneled",
            remove |-> fading /\ opacity1 <= 0]
      ELSE [p |-> [p EXCEPT !.x = x1], ev |-> "none", remove |-> FALSE]

UpdateTransmitted(p, prm, dt) ==
  LET x1 == p.x + Advance(p.speed, prm.slowMotion)
      first == ~p.hitFlashDone
      hitTime1 == (IF first THEN 0 ELSE p.hitTime) + dt
      fading == hitTime1 > HIT_FLASH_DURATION
      opacity1 == IF fading THEN p.opacity - dt * 4 ELSE p.opacity
  IN  IF x1 >= TARGET_X
      THEN [p |-> [p EXCEPT !.x = x1, !.hitFlashDone = TRUE,
                            !.hitTime = hitTime1, !.opacity = opacity1],
            ev |-> IF first THEN "tunneled" ELSE "none",
            remove |-> fading /\ opacity1 <= 0]
      ELSE [p |-> [p EXCEPT !.x = x1], ev |-> "none", remove |-> FALSE]

\* mutant: the callback sits in the reflected branch and fires in every frame
UpdateReflectedCallsAgain(p, prm) ==
  LET x1 == p.x - Advance(p.speed, prm.slowMotion)
  IN  [p |-> [p EXCEPT !.x = x1],
       ev |-> "reflected",
       remove |-> x1 <= SOURCE_X - 2 * XUnit]

\* mutant: a reflected particle comes to rest at the source
UpdateReflectedToSource(p, prm) ==
  [p |-> [p EXCEPT !.x = Max(p.x - Advance(p.speed, prm.slowMotion),
                             SOURCE_X)],
   ev |-> "none", remove |-> FALSE]

UpdateReflected(p, prm) ==
  LET x1 == p.x - Advance(p.speed, prm.slowMotion)
  IN  [p |-> [p EXCEPT !.x = x1], ev |-> "none",
       remove |-> x1 <= SOURCE_X - 2 * XUnit]

\* the branch on the phase the particle has at the start of the iteration
UpdatePhase(p, prm, dt) ==
  IF p.phase = "incident" THEN UpdateIncident(p, prm)
  ELSE IF p.phase = "barrier" THEN UpdateBarrier(p, prm)
  ELSE IF p.phase = "transmitted" THEN UpdateTransmitted(p, prm, dt)
  ELSE UpdateReflected(p, prm)

\* One iteration of particlesRef.current.forEach in useFrame.  The history
\* fields record what the iteration did: a phase it assigned, a callback it
\* invoked.
UpdateParticle(p, prm, dt) ==
  LET r == UpdatePhase(p, prm, dt)
  IN  [r EXCEPT !.p =
         [r.p EXCEPT
            !.path = IF r.p.phase # p.phase THEN Append(@, r.p.phase) ELSE @,
            !.reflectedCalls = IF r.ev = "reflected" THEN @ + 1 ELSE @,
            !.tunneledCalls = IF r.ev = "tunneled" THEN @ + 1 ELSE @]]

\* mutant: a spawn is due once the interval has elapsed exactly
SpawnDueAtInterval(elapsed, intensity) ==
  IF intensity = 0 THEN FALSE
  ELSE IF intensity < 0 THEN TRUE
  ELSE elapsed * intensity >= 1000

\* now - lastSpawnRef.current > 1000 / intensity
\* mutant: a rate of 0 is treated like a negative one
SpawnDueAtZero(elapsed, intensity) ==
  IF intensity <= 0 THEN TRUE ELSE elapsed * intensity > 1000

SpawnDue(elapsed, intensity) ==
  IF intensity = 0 THEN FALSE
  ELSE IF intensity < 0 THEN TRUE
  ELSE elapsed * intensity > 1000

\* history: the particle that a spawn attempt added, if any, is given the
\* time since the previous attempt, the time since the last attempt that
\* added nothing, the rate and the number of live particles of that attempt
Stamp(before, after, elapsed, dropAgo, prm) ==
  IF Len(after) > Len(before)
  THEN [after EXCEPT ![Len(after)] =
          @ @@ [gap |-> elapsed, dropAgo |-> dropAgo, rate |-> prm.intensity,
                liveBefore |-> Len(before)]]
  ELSE after

\* mutant: only a spawn that added a particle restarts the spawn timer
lastSpawnOnSuccess(due, spawned, elapsed) == IF spawned THEN 0 ELSE elapsed

\* lastSpawnRef.current = now, inside the spawn gate (ms since, afterwards)
lastSpawn(due, spawned, elapsed) == IF due THEN 0 ELSE elapsed

Kept(r) == ~r.remove
Fired(r) == r.ev # "none"

\* mutant: a particle is spliced out as soon as its update asks for removal,
\* and forEach then passes over the particle that follows it
UpdateAllSplicing(ps, prm, dt) ==
  [i \in 1..Len(ps) |->
     IF i > 1 /\ UpdateParticle(ps[i - 1], prm, dt).remove
     THEN [p |-> ps[i], ev |-> "none", remove |-> FALSE]
     ELSE UpdateParticle(ps[i], prm, dt)]

\* particlesRef.current.forEach(p => ...): every particle is updated; the
\* ones to remove are only collected (toRemove)
UpdateAll(ps, prm, dt) ==
  [i \in 1..Len(ps) |-> UpdateParticle(ps[i], prm, dt)]

\* history: what is recorded of a particle that a frame removes
Record(p) ==
  [phase |-> p.phase, willTunnel |-> p.willTunnel, path |-> p.path,
   reflectedCalls |-> p.reflectedCalls, tunneledCalls |-> p.tunneledCalls]

\* The useFrame callback of Particles for one frame: spawn attempt, update of
\* every particle, callbacks, removal.  limit bounds the particles ever spawned.
Frame(delta, u, speed, limit) ==
  LET elapsed == Min(sinceSpawn + delta, SinceCap)
      due == SpawnDue(elapsed, params.intensity)
      attempt == IF due
                 THEN Stamp(particles,
                            spawnParticle(particles, spawns + 1, params, u,
                                          speed),
                            elapsed, Min(sinceDrop + delta, SinceCap), params)
                 ELSE particles
      dt == ScaledDt(delta, params.slowMotion)
  IN  \* ps1, the particles after the spawn attempt, and res, the outcome of
      \* the forEach, are each bound to their value
      \E ps1 \in {attempt} : \E res \in {UpdateAll(ps1, params, dt)} :
      LET spawned == Len(ps1) > Len(particles)
          kept == SelectSeq(res, Kept)
          fired == SelectSeq(res, Fired)
      IN
      /\ spawned => spawns < limit
      /\ pending # {} => lag < MaxLag
      /\ sinceSpawn' = lastSpawn(due, spawned, elapsed)
      /\ sinceDrop' = IF due /\ ~spawned THEN 0
                      ELSE Min(sinceDrop + delta, SinceCap)
      /\ particles' = [i \in 1..Len(kept) |-> kept[i].p]
      /\ stats' = ApplyCallbacks(stats, [i \in 1..Len(fired) |-> fired[i].ev])
      /\ spawns' = IF spawned THEN spawns + 1 ELSE spawns
      /\ lag' = IF pending # {} THEN lag + 1 ELSE lag
      /\ countedCfgs' =
           countedCfgs \cup {fired[i].p.cfg : i \in 1..Len(fired)}
      /\ gone' = gone \cup {Record(res[i].p) :
                               i \in {j \in 1..Len(res) : res[j].remove}}
      /\ reported' = IF pending = {} /\ fired # << >>
                     THEN reported \cup {Snapshot(stats', params)}
                     ELSE reported
      /\ transitions' =
           [reflected |-> transitions.reflected + Cardinality(
              {i \in 1..Len(res) : /\ ps1[i].phase = "incident"
                                   /\ res[i].p.phase = "reflected"}),
            tunneled |-> transitions.tunneled + Cardinality(
              {i \in 1..Len(res) : /\ ~ps1[i].hitFlashDone
                                   /\ res[i].p.hitFlashDone})]
      /\ UNCHANGED <<params, prevRef, pending, renders, lastChange, physics,
                     wave>>

FrameTick ==
  /\ \E delta \in Deltas, u \in RandDraws, speed \in SpeedDraws :
       Frame(delta, u, speed, MaxSpawns)
  /\ UNCHANGED trail

\* ------------------------------------------------------------------ effects
\* mutant: the effect leaves the particles in flight
DiscardEffectKeeps(ps) == ps

\* Particles: useEffect(..., [energy, barrierHeight, barrierWidth])
DiscardEffect(ps) == << >>

\* QuantumTunneling: useEffect(..., [particleEnergy, barrierHeight,
\* barrierWidth, theoreticalT]); the pair <<stats, prevRef.current>> after it
ResetEffect(s, prev, prm) ==
  IF prev # Triple(prm)
  THEN <<[createEmptyStats EXCEPT !.tunnelingProbability = TheoreticalT(prm)],
         Triple(prm)>>
  ELSE <<s, prev>>

\* mutant: the theory effect builds the statistics anew
TheoryEffectFresh(s, prm) ==
  [createEmptyStats EXCEPT !.tunnelingProbability = TheoreticalT(prm)]

\* QuantumTunneling: useEffect(..., [theoreticalT])
TheoryEffect(s, prm) == [s EXCEPT !.tunnelingProbability = TheoreticalT(prm)]

\* mutant: intensity and slowMotion are among the dependencies too
ScheduledOnAnyProp(old, new) ==
  IF old # new THEN {"discard", "reset"} ELSE {}

\* the effects whose dependencies differ between two renders
Scheduled(old, new) ==
  (IF Triple(old) # Triple(new) THEN {"discard", "reset"} ELSE {})
  \cup (IF TheoreticalT(old) # TheoreticalT(new) THEN {"reset", "theory"}
        ELSE {})

\* A render with new props is committed.
Render(new) ==
  /\ pending = {}
  /\ new # params
  /\ params' = new
  /\ pending' = Scheduled(params, new)
  /\ lag' = 0
  /\ lastChange' = IF Triple(new) # Triple(params) THEN "physics"
                   ELSE "display"
  /\ UNCHANGED <<particles, sinceSpawn, stats, prevRef, spawns, countedCfgs,
                 gone, physics, reported, sinceDrop, wave, trail,
                 transitions>>

\* The parent passes intensity = 0, the degenerate rate below the slider's
\* range: 1000 / intensity is Infinity and no spawn is due from then on, the
\* particles in flight run on.
StopSpawning ==
  /\ params.intensity # 0
  /\ Render([params EXCEPT !.intensity = 0])
  /\ UNCHANGED renders

\* setParams({...params, field: value}): the props that differ from old in
\* exactly one field
OneFieldFrom(old) ==
  {new \in ParamSpace :
     Cardinality({f \in DOMAIN old : new[f] # old[f]}) = 1}

\* a change of particleEnergy, barrierHeight or barrierWidth
SetPhysicsParams ==
  /\ renders < MaxRenders
  /\ renders' = renders + 1
  /\ \E new \in OneFieldFrom(params) :
       Triple(new) # Triple(params) /\ Render(new)

\* slowMotion or a display toggle is switched on or off
SetDisplayParams ==
  /\ renders < MaxRenders
  /\ renders' = renders + 1
  /\ \E new \in OneFieldFrom(params) :
       /\ Triple(new) = Triple(params)
       /\ new.intensity = params.intensity
       /\ Render(new)

\* The passive effects of the last commit: Particles (child) first, then
\* QuantumTunneling's effects in declaration order.  The onStatsUpdate effect
\* of the mount passes the statistics of that render; the setStats calls of
\* the reset and theory effects cause a render whose onStatsUpdate effect
\* passes the new statistics.
RunEffects ==
  LET r == IF "reset" \in pending THEN ResetEffect(stats, prevRef, params)
           ELSE <<stats, prevRef>>
  IN  /\ pending # {}
      /\ particles' = IF "discard" \in pending THEN DiscardEffect(particles)
                      ELSE particles
      /\ stats' = IF "theory" \in pending THEN TheoryEffect(r[1], params)
                  ELSE r[1]
      /\ prevRef' = r[2]
      /\ countedCfgs' = IF r[2] # prevRef THEN {} ELSE countedCfgs
      /\ pending' = {}
      /\ lag' = 0
      /\ reported' =
           reported
           \cup (IF "report" \in pending THEN {Snapshot(stats, params)}
                 ELSE {})
           \cup {Snapshot(stats', params)}
      /\ transitions' = IF r[2] # prevRef THEN NoTransitions
                        ELSE transitions
      /\ UNCHANGED <<params, sinceSpawn, spawns, renders, lastChange, gone,
                     physics, sinceDrop, wave, trail>>

\* frames, changes of the physics triple and of the particle rate
Next == FrameTick \/ SetPhysicsParams \/ StopSpawning \/ RunEffects

Spec == Init /\ [][Next]_vars

\* ------------------------------------------------- display-only changes
\* App keeps tunnelingParams while another experiment is shown; when the
\* user comes back, QuantumTunneling is mounted with the triple left there.
\* Here: the default triple or the default with the narrowest barrier.
MountedParams ==
  {[DEFAULT_TUNNELING_PARAMS EXCEPT !.barrierWidth = w] : w \in Widths}

InitMounted == (\E prm \in MountedParams : Mount(prm)) /\ physics = NoCall

\* a frame at a steady 25 frames per second
FrameSteady ==
  /\ \E u \in RandDraws : Frame(40, u, 240, MaxSpawns)
  /\ UNCHANGED trail

\* steady frames, changes of slowMotion, of a display toggle and of the
\* particle rate
NextDisplay == FrameSteady \/ SetDisplayParams \/ StopSpawning \/ RunEffects

SpecDisplay == InitMounted /\ [][NextDisplay]_vars

\* ------------------------------------------------ dense spawning (the cap)
\* Frames of 256 ms at 25 particles/s attempt a spawn in every frame; every
\* draw is the largest one, so outside the classical regime every particle is
\* reflected.
FrameDense == Frame(256, PScale - 1, 240, MaxSpawnsCap) /\ UNCHANGED trail

\* a change of particleEnergy, barrierHeight or barrierWidth made while the
\* live set is full
SetPhysicsParamsAtCap ==
  /\ Len(particles) >= MAX_PARTICLES
  /\ SetPhysicsParams

\* a frame of 40 ms before the last spawn of the behaviour or with no
\* particle in flight: when it follows a spawn attempt directly, exactly the
\* spawn interval has elapsed
FrameShort ==
  /\ spawns = MaxSpawnsCap - 1 \/ particles = << >>
  /\ Frame(40, PScale - 1, 240, MaxSpawnsCap)
  /\ UNCHANGED trail

NextCap == FrameDense \/ FrameShort \/ SetPhysicsParamsAtCap \/ RunEffects

SpecCap == Init /\ [][NextCap]_vars

\* ------------------------------------------ the statistics on their own
\* QuantumTunneling seen from its props: Particles invokes the two callbacks
\* in any order and number, between changes of the triple and their effects.
OnParticleTunneled ==
  /\ stats.totalParticles < MaxCalls
  /\ stats' = handleParticleTunneled(stats)
  /\ reported' = IF pending = {} THEN reported \cup {Snapshot(stats', params)}
                 ELSE reported
  /\ UNCHANGED <<params, particles, sinceSpawn, prevRef, pending, spawns,
                 renders, lag, lastChange, countedCfgs, gone, physics,
                 sinceDrop, wave, trail, transitions>>

OnParticleReflected ==
  /\ stats.totalParticles < MaxCalls
  /\ stats' = handleParticleReflected(stats)
  /\ reported' = IF pending = {} THEN reported \cup {Snapshot(stats', params)}
                 ELSE reported
  /\ UNCHANGED <<params, particles, sinceSpawn, prevRef, pending, spawns,
                 renders, lag, lastChange, countedCfgs, gone, physics,
                 sinceDrop, wave, trail, transitions>>

NextStats ==
  OnParticleTunneled \/ OnParticleReflected \/ SetPhysicsParams \/ RunEffects

SpecStats == Init /\ [][NextStats]_vars

\* -------------------------------------------- the physics functions alone
\* Arguments in tenths.  Energies: 0 and the slider's 0.5 .. 20 eV; barrier
\* heights: 0, the slider's 1 .. 25 eV in steps of 0.5 and 100 eV; widths:
\* 0, values of the slider's 0.1 .. 5 nm and 50 nm.  At 100 eV and 50 nm the
\* exponential underflows to 0; HugeHeight makes the quotient under the square
\* root overflow.
PhysEnergies == {5 * i : i \in 0..40}
PhysHeights == {5 * i : i \in 0..50} \cup {1000, HugeHeight}
PhysWidths == {0, 1, 2, 3, 5, 8, 10, 15, 20, 30, 50, 500}

InitPhysics ==
  /\ Mount(DEFAULT_TUNNELING_PARAMS)
  /\ \E e \in PhysEnergies, v \in PhysHeights, w \in PhysWidths :
       physics = [args |-> <<e, v, w>>, done |-> FALSE]

\* useTunneling and calculateTunnelingProbability are called with the
\* arguments and return
CallPhysics ==
  /\ ~physics.done
  /\ physics' =
       [args |-> physics.args, done |-> TRUE,
        hook |-> useTunneling(physics.args[1], physics.args[2],
                              physics.args[3]),
        calc |-> calculateTunnelingProbability(physics.args[1],
                                               physics.args[2],
                                               physics.args[3])]
  /\ UNCHANGED <<params, particles, sinceSpawn, stats, prevRef, pending,
                 spawns, renders, lag, lastChange, countedCfgs, gone,
                 reported, sinceDrop, wave, trail, transitions>>

NextPhysics == CallPhysics

SpecPhysics == InitPhysics /\ [][NextPhysics]_vars

\* ------------------------------------------------ degenerate parameters
\* barrierWidth, barrierHeight and intensity each negative, 0 or at the
\* default, at least one of them not positive
DegenerateParams ==
  {[DEFAULT_TUNNELING_PARAMS EXCEPT !.barrierWidth = w, !.barrierHeight = v,
                                    !.intensity = r] :
     w \in {0 - 10, 0, 15}, v \in {0 - 10, 0, 80}, r \in {0 - 25, 0, 25}}
  \ {DEFAULT_TUNNELING_PARAMS}

InitDegenerate ==
  (\E prm \in DegenerateParams : Mount(prm)) /\ physics = NoCall

NextDegenerate == FrameSteady \/ StopSpawning \/ RunEffects

SpecDegenerate == InitDegenerate /\ [][NextDegenerate]_vars

\* ------------------------------------------- frames that keep being delivered
NextLive == FrameSteady \/ StopSpawning \/ RunEffects

\* the render loop calls the useFrame callback in every animation frame, and
\* React flushes the passive effects of a commit
SpecLive ==
  Init /\ [][NextLive]_vars /\ WF_vars(FrameSteady) /\ WF_vars(RunEffects)

\* ------------------------------------------------------ the trail buffers
\* mutant: a full buffer drops the position just pushed
TrailPushDropsNewest(points, x) ==
  IF Len(points) >= TRAIL_LENGTH THEN points ELSE Append(points, x)

\* trailPoints.push(mesh.position.clone());
\* if (trailPoints.length > TRAIL_LENGTH) trailPoints.shift();
TrailPush(points, x) ==
  IF Len(Append(points, x)) > TRAIL_LENGTH THEN Tail(Append(points, x))
  ELSE Append(points, x)

\* spawnParticle: trailPoints: [startPos.clone()], a trailMesh if showTrails
NewTrail(prm) ==
  [points |-> <<SOURCE_X + XUnit \div 2>>, mesh |-> prm.showTrails,
   recorded |-> <<SOURCE_X + XUnit \div 2>>]

\* the trail update at the head of the forEach body, for a particle at x in
\* the given phase before its position update
TrailStep(t, x, phase, prm) ==
  IF prm.showTrails /\ t.mesh /\ phase # "reflected"
  THEN [t EXCEPT !.points = TrailPush(@, x), !.recorded = Append(@, x)]
  ELSE t

\* a frame at a steady 25 frames per second, with the trail buffers
FrameTrail ==
  /\ \A id \in DOMAIN trail : Len(trail[id].recorded) < MaxTrailHistory
  /\ \E u \in RandDraws : Frame(40, u, 240, MaxSpawnsTrail)
  /\ trail' =
       [id \in DOMAIN trail \cup {p.id : p \in {particles[i] : i \in 1..Len(particles)}}
                            \cup (IF spawns' > spawns THEN {spawns'} ELSE {}) |->
          IF \E i \in 1..Len(particles) : particles[i].id = id
          THEN LET p == CHOOSE q \in {particles[i] : i \in 1..Len(particles)} :
                          q.id = id
               IN  TrailStep(trail[id], p.x, p.phase, params)
          ELSE IF id \in DOMAIN trail THEN trail[id]
          ELSE TrailStep(NewTrail(params), SOURCE_X + XUnit \div 2,
                         "incident", params)]

\* the showTrails checkbox cleared: a render with showTrails false
HideTrails ==
  /\ params.showTrails
  /\ Render([params EXCEPT !.showTrails = FALSE])
  /\ UNCHANGED renders

\* mounted with either setting of the showTrails and slowMotion checkboxes
InitTrail ==
  /\ \E st \in BOOLEAN, sm \in BOOLEAN :
       Mount([DEFAULT_TUNNELING_PARAMS EXCEPT !.showTrails = st,
                                              !.slowMotion = sm])
  /\ physics = NoCall

\* steady frames with the trail buffers, showTrails turned off and the
\* particle rate turned down to 0
NextTrail == FrameTrail \/ HideTrails \/ StopSpawning \/ RunEffects

SpecTrail == InitTrail /\ [][NextTrail]_vars

\* --------------------------------------------- the wave overlay on its own
\* props of WaveVisualization in tenths: the defaults, an energy above the
\* barrier, a barrier below the energy, the narrowest and the widest barrier
\* of the slider, and the degenerate widths 0 and -1 nm
WaveArgs == Energies \X Heights \X (Widths \cup {0 - 10, 0, 50})

\* useFrame of WaveVisualization: timeRef.current += delta * 3 (in ms here);
\* a ref is written, nothing is rendered
WaveFrame ==
  /\ wave.frames < MaxWaveFrames
  /\ \E delta \in Deltas :
       wave' = [wave EXCEPT !.timeRef = @ + delta * 3, !.frames = @ + 1]
  /\ UNCHANGED <<params, particles, sinceSpawn, stats, prevRef, pending,
                 spawns, renders, lag, lastChange, countedCfgs, gone,
                 physics, reported, sinceDrop, trail, transitions>>

\* WaveVisualization is rendered with other props: a dependency of useMemo
\* differs, the curves are computed anew from timeRef.current.  (A render
\* with the same props returns the memoized curves.)
WaveRender ==
  /\ \E a \in WaveArgs :
       /\ a # wave.args
       /\ wave' = [wave EXCEPT !.args = a,
                               !.curves = WaveCurves(a, wave.timeRef)]
  /\ UNCHANGED <<params, particles, sinceSpawn, stats, prevRef, pending,
                 spawns, renders, lag, lastChange, countedCfgs, gone,
                 physics, reported, sinceDrop, trail, transitions>>

NextWave == WaveFrame \/ WaveRender

SpecWave == Init /\ [][NextWave]_vars

TypeOK ==
  /\ params \in ParamSpace
  /\ Len(particles) <= MAX_PARTICLES
  /\ sinceSpawn \in 0..SinceCap
  /\ pending \subseteq {"discard", "reset", "theory", "report"}
  /\ prevRef \in Energies \X Heights \X Widths
  /\ \A i \in 1..Len(particles) :
       particles[i].phase \in {"incident", "barrier", "transmitted",
                               "reflected"}
  /\ Cardinality({particles[i].id : i \in 1..Len(particles)})
       = Len(particles)

\* ------------------------------------------------------------------ helpers
Live == {particles[i] : i \in 1..Len(particles)}

\* isClassical || Math.random() < probability, for the triple and the draw
\* of the particle's spawn
SpawnOutcome(p) ==
  useTunneling(p.cfg[1], p.cfg[2], p.cfg[3]).isClassical \/ p.drewBelow

\* the live particles and the removed ones, as history records
Known == {Record(p) : p \in Live} \cup gone

\* ------------------------------------------------------------------- claims

\* C1: in every reachable state of the statistics,
\* tunneled + reflected = totalParticles.
C1_CountsAddUp == stats.tunneled + stats.reflected = stats.totalParticles

\* both callbacks have been counted since the last reset
C1_Witness == stats.tunneled >= 1 /\ stats.reflected >= 1

\* C2: the number of live particles never exceeds MAX_PARTICLES (80); a spawn
\* attempt made while 80 particles are live adds nothing.
C2_CapHolds == Len(particles) <= MAX_PARTICLES

\* the live set is full, a spawn attempt has just been made (the spawn timer
\* was reset by this frame) and no live particle is a new one
C2_Witness ==
  /\ Len(particles) = MAX_PARTICLES
  /\ sinceSpawn = 0
  /\ spawns = MAX_PARTICLES
  /\ \A p \in Live : p.x > SOURCE_X + XUnit \div 2 + p.speed

\* C3 (as claimed): whenever particleEnergy, barrierHeight or barrierWidth
\* changes, the statistics are reset and the live set is emptied before the
\* next frame update runs: no frame update has advanced a particle spawned
\* under the previous triple.
C3_ResetBeforeNextFrame ==
  lag > 0 => \A p \in Live : p.cfg = Triple(params)

\* C4: a change that touches only intensity or slowMotion leaves the
\* statistics and the live particles as they are and schedules no effect that
\* would reset or discard.
C4_DisplayChangeKeeps ==
  [][(params' # params /\ Triple(params') = Triple(params))
       => (stats' = stats /\ particles' = particles /\ pending' = {})]_vars

\* slowMotion was switched on with a tunneled and a reflected particle
\* counted and particles in flight, and nothing is left to run
C4_Witness ==
  /\ lastChange = "display"
  /\ params.slowMotion
  /\ pending = {}
  /\ stats.tunneled > 0
  /\ stats.reflected > 0
  /\ particles # << >>

\* C5: once the effects of a change of the triple have run, every increment
\* in the statistics comes from a particle spawned under the current triple,
\* and so does every particle that may still be counted.
C5_NoMixedHistory ==
  pending = {} => /\ countedCfgs \subseteq {Triple(params)}
                  /\ \A p \in Live : p.cfg = Triple(params)

\* statistics counted after a change of the triple
C5_Witness ==
  /\ Triple(params) # Triple(DEFAULT_TUNNELING_PARAMS)
  /\ pending = {}
  /\ stats.totalParticles > 0

\* C6: a particle's phase changes only along incident -> barrier (when
\* willTunnel), incident -> reflected (when not willTunnel) and
\* barrier -> transmitted: the phases a particle has taken, live or removed,
\* form a prefix of one of the two paths, the one of its willTunnel.
C6_PhaseOrder ==
  \A r \in Known :
    /\ r.phase = r.path[Len(r.path)]
    /\ r.path \in
         IF r.willTunnel
         THEN {<<"incident">>, <<"incident", "barrier">>,
               <<"incident", "barrier", "transmitted">>}
         ELSE {<<"incident">>, <<"incident", "reflected">>}

\* a transmitted particle and a reflected particle are live together
C6_Witness ==
  /\ \E p \in Live : p.phase = "transmitted"
  /\ \E p \in Live : p.phase = "reflected"

\* C7: willTunnel is what spawnParticle assigned from the physics of the
\* triple current at spawn time (isClassical, or the draw below its
\* probability), whatever the props are now; a particle with
\* willTunnel = false is never in the barrier or transmitted phase, one with
\* willTunnel = true never in the reflected phase.
C7_OutcomeCommitted ==
  \A p \in Live :
    /\ p.willTunnel = SpawnOutcome(p)
    /\ p.phase \in {"barrier", "transmitted"} => p.willTunnel
    /\ p.phase = "reflected" => ~p.willTunnel

\* a particle that drew willTunnel = false under a triple with 0 < T < 1 has
\* been reflected, next to one that drew willTunnel = true and is past the
\* barrier
C7_Witness ==
  /\ \E p \in Live : /\ p.phase = "reflected"
                     /\ Physics(params).probability \in 1..(PScale - 1)
                     /\ p.cfg = Triple(params)
  /\ \E p \in Live : p.phase = "transmitted" /\ p.cfg = Triple(params)

C9_ReflectedOnce ==
  \A r \in Known :
    r.reflectedCalls = IF r.phase = "reflected" THEN 1 ELSE 0

\* a reflected particle has been counted and is on its way back, several
\* frames after the transition
C9_Witness ==
  \E p \in Live : /\ p.phase = "reflected"
                  /\ p.x < SOURCE_X
                  /\ p.reflectedCalls = 1
                  /\ stats.reflected >= 1

\* C10: onParticleTunneled has been invoked exactly once for a transmitted
\* particle whose position is at or beyond TARGET_X, from the first such
\* frame on and however many frames it stays live afterwards, and never for
\* another particle; a transmitted particle is removed only with that
\* invocation made.
C10_TunneledOnce ==
  /\ \A p \in Live :
       /\ p.tunneledCalls =
            IF p.phase = "transmitted" /\ p.x >= TARGET_X THEN 1 ELSE 0
       /\ p.hitFlashDone <=> p.tunneledCalls = 1
  /\ \A r \in gone :
       r.tunneledCalls = IF r.phase = "transmitted" THEN 1 ELSE 0

\* a particle counted as tunneled is still live, fading, frames after the
\* invocation, and another one has been removed
C10_Witness ==
  /\ \E p \in Live : /\ p.hitFlashDone
                     /\ p.hitTime > HIT_FLASH_DURATION
                     /\ p.opacity < 500
                     /\ p.tunneledCalls = 1
                     /\ stats.tunneled >= 1
  /\ \E r \in gone : r.phase = "transmitted"

\* C11 (as claimed): a reflected particle is counted when it exits the
\* source-side boundary, not when it turns back at the barrier: no particle
\* that is still live in the reflected phase has been counted.
C11_CountedAtExit ==
  \A p \in Live : p.phase = "reflected" => p.reflectedCalls = 0

\* C11 (amended): a particle is counted at the moment its outcome shows: a
\* reflected particle in the frame in which it turns back at the barrier,
\* a transmitted particle when it is at or beyond TARGET_X; never at spawn
\* or on the way to the barrier, and the statistics hold every such count.
C11_CountedAtTurnBack ==
  /\ \A p \in Live :
       /\ p.phase \in {"incident", "barrier"} =>
            p.reflectedCalls = 0 /\ p.tunneledCalls = 0
       /\ p.phase = "reflected" =>
            p.reflectedCalls = 1 /\ p.tunneledCalls = 0
       /\ p.phase = "transmitted" =>
            /\ p.reflectedCalls = 0
            /\ p.tunneledCalls = IF p.x >= TARGET_X THEN 1 ELSE 0
  /\ stats.reflected >= Cardinality({p \in Live : p.phase = "reflected"})
  /\ stats.tunneled >= Cardinality({p \in Live : p.tunneledCalls = 1})

\* a reflected particle is in the statistics while it is still between the
\* barrier and the source
C11_Witness ==
  \E p \in Live : /\ p.phase = "reflected"
                  /\ p.x > SOURCE_X + XUnit
                  /\ p.reflectedCalls = 1
                  /\ stats.reflected = 1
                  /\ stats.totalParticles = 1
                  /\ pending = {}

\* C12: in every reachable state of the statistics, experimentalProbability
\* is tunneled / totalParticles when totalParticles > 0 and 0 when
\* totalParticles = 0, after a reflected increment as after a tunneled one.
C12_ExperimentalIsRatio ==
  LET e == stats.experimentalProbability
  IN  /\ e.den > 0
      /\ IF stats.totalParticles > 0
         THEN e.num * stats.totalParticles = stats.tunneled * e.den
         ELSE e.num = 0

\* a reflected particle has been counted after tunneled ones: two of three
\* tunneled
C12_Witness ==
  /\ stats.tunneled = 2
  /\ stats.reflected = 1
  /\ stats.experimentalProbability = [num |-> 2, den |-> 3]

\* C13: whenever the energy is at least the barrier height, a tie included,
\* useTunneling returns isClassical = true, probability = 1, kappa = 0 and
\* reflectionProbability = 0, and calculateTunnelingProbability returns 1.
C13_ClassicalLimit ==
  (physics.done /\ physics.args[1] >= physics.args[2]) =>
     /\ physics.hook.isClassical
     /\ physics.hook.probability = PScale
     /\ physics.hook.kappa = 0
     /\ physics.hook.reflectionProbability = 0
     /\ physics.calc = PScale

\* the tie: both functions have returned for energy = barrier height = 5 eV
\* and a barrier of 1.5 nm
C13_Witness ==
  /\ physics.done
  /\ physics.args = <<50, 50, 15>>
  /\ physics.hook.isClassical
  /\ physics.hook.kappa = 0
  /\ physics.calc = PScale

\* C14 (as claimed): in every reachable state whose current parameters have
\* particleEnergy >= barrierHeight, reflected = 0 and no live particle is in
\* the reflected phase, whatever was configured before.
C14_ClassicalNeverReflects ==
  params.particleEnergy >= params.barrierHeight =>
     /\ stats.reflected = 0
     /\ \A p \in Live : p.phase # "reflected"

\* C15 (as claimed): for every finite non-negative energy, barrier height and
\* width, the probability that useTunneling and calculateTunnelingProbability
\* return lies in [0, 1], and reflectionProbability = 1 - probability lies in
\* [0, 1] as well.
C15_ProbabilityInUnitInterval ==
  physics.done =>
     /\ physics.hook.probability \in 0..PScale
     /\ physics.hook.reflectionProbability \in 0..PScale
     /\ physics.hook.reflectionProbability = PScale - physics.hook.probability
     /\ physics.calc \in 0..PScale

\* C16 (as claimed): for every energy below the barrier height and all widths
\* L1 < L2 with that energy and height, T(L1) >= T(L2).
C16_MonotoneInWidth ==
  (physics.done /\ physics.args[1] < physics.args[2]) =>
     \A w \in PhysWidths :
        w < physics.args[3] =>
          Geq(calculateTunnelingProbability(physics.args[1], physics.args[2],
                                            w),
              physics.calc)

\* C17 (as claimed): in every snapshot reported through onStatsUpdate, the
\* first after mount and the first after a reset included, tunnelingProbability
\* equals T computed for the parameters current at that moment.
C17_SnapshotCarriesT ==
  \A r \in reported : r.tunnelingProbability = r.theoreticalT

\* C18: the effect keyed on theoreticalT changes only tunnelingProbability:
\* totalParticles, tunneled, reflected and experimentalProbability are, after
\* it, what they were in the statistics it was applied to (those that the
\* reset effect of the same flush, declared before it, left).
C18_TheoryKeepsCounts ==
  [][("theory" \in pending /\ pending' = {}) =>
       LET before == IF "reset" \in pending
                     THEN ResetEffect(stats, prevRef, params)[1]
                     ELSE stats
       IN  /\ stats'.totalParticles = before.totalParticles
           /\ stats'.tunneled = before.tunneled
           /\ stats'.reflected = before.reflected
           /\ stats'.experimentalProbability = before.experimentalProbability
           /\ stats'.tunnelingProbability = TheoreticalT(params)]_vars

\* the effects of a change of the triple have run: the statistics carry the
\* new T, which differs from the one recorded at mount, and zero counts
C18_Witness ==
  /\ pending = {}
  /\ lastChange = "physics"
  /\ stats.tunnelingProbability = TheoreticalT(params)
  /\ TheoreticalT(params) # TheoreticalT(DEFAULT_TUNNELING_PARAMS)
  /\ stats.totalParticles = 0
  /\ Snapshot(stats, params) \in reported

\* C20: a particle is spawned in a frame only if more than 1000 / intensity ms
\* have elapsed since the previous spawn attempt and fewer than MAX_PARTICLES
\* (80) particles are live; so two spawns are more than 1000 / intensity ms
\* apart, and at most one particle is spawned per frame (at most one incident
\* particle has made no more than the step of the frame that spawned it).
C20_SpawnThrottle ==
  /\ \A p \in Live :
       /\ p.rate > 0
       /\ p.gap * p.rate > 1000
       /\ p.liveBefore < MAX_PARTICLES
  /\ Cardinality({p \in Live : /\ p.phase = "incident"
                                /\ p.x <= SOURCE_X + XUnit \div 2 + p.speed})
       <= 1

\* the live set had filled up to the cap (in SpecCap the triple is changed only
\* then) and was discarded; later a frame came exactly one spawn interval
\* after a spawn and spawned nothing, and the frame after it spawned the last
\* particle, two steps behind the one before it
C20_Witness ==
  /\ spawns = MaxSpawnsCap
  /\ lastChange = "physics"
  /\ sinceSpawn = 0
  /\ Len(particles) >= 2
  /\ particles[Len(particles)].id = spawns
  /\ particles[Len(particles)].liveBefore = Len(particles) - 1
  /\ particles[Len(particles) - 1].phase = "incident"
  /\ particles[Len(particles) - 1].x - particles[Len(particles)].x
       = 2 * particles[Len(particles)].speed

\* C21: a spawn attempt made at the cap is dropped and still restarts the
\* spawn timer: nothing is queued or retried, and the next particle appears
\* no sooner than one spawn interval after the dropped attempt.
C21_DroppedAttemptNotMadeUp ==
  /\ sinceDrop = 0 => sinceSpawn = 0
  /\ \A p \in Live : p.dropAgo * p.rate >= 1000

\* attempts were dropped at the cap and the live set was then discarded; a
\* frame exactly one spawn interval (40 ms at 25 per second) after the last
\* dropped attempt has found every slot free and spawned nothing
C21_Witness ==
  /\ spawns = MAX_PARTICLES
  /\ particles = << >>
  /\ pending = {}
  /\ params.intensity = 25
  /\ sinceDrop = 40
  /\ sinceSpawn = 40

C23_MotionScalesWithDt ==
  [][(pending' = pending /\ params' = params) =>
       \E delta \in Deltas :
         \A i \in 1..Len(particles), k \in 1..Len(particles') :
           particles'[k].id = particles[i].id =>
             (particles'[k].x - particles[i].x) * 10000
               = (IF particles[i].phase = "reflected" THEN 0 - 1 ELSE 1)
                   * particles[i].speed
                   * ScaledDt(delta, params.slowMotion)
                   * (IF particles[i].phase = "barrier" THEN 7 ELSE 10)]_vars

\* C24 (as claimed): the wave overlay's curves are re-evaluated every frame:
\* after every frame the displayed points are those computed from the
\* accumulator value of that frame; the accumulator never decreases.
C24_CurvesFollowTime ==
  [][/\ wave'.timeRef >= wave.timeRef
     /\ wave'.frames # wave.frames =>
          wave'.curves = WaveCurves(wave'.args, wave'.timeRef)]_vars

\* C25: the optional wave segments are produced exactly under their
\* visibility conditions: the reflected curve is non-empty if and only if
\* reflectionProbability > 0.01, the evanescent curve only when not classical
\* and kappa > 0, the transmitted curve if and only if probability > 0.001;
\* in the classical regime the reflected and evanescent curves are empty and
\* the transmitted amplitude equals the incident amplitude.
C25_SegmentsUnderConditions ==
  LET phys == useTunneling(wave.args[1], wave.args[2], wave.args[3])
      c == wave.curves
  IN  /\ c.reflected > 0 <=> Gt(phys.reflectionProbability, ReflectedVisible)
      /\ c.evanescent > 0 => ~phys.isClassical /\ Gt(phys.kappa, 0)
      /\ c.transmitted > 0 <=> Gt(phys.probability, TransmittedVisible)
      /\ phys.isClassical =>
           /\ c.reflected = 0
           /\ c.evanescent = 0
           /\ c.transmitted > 0
           /\ c.transmittedAmpSq = c.incidentAmpSq

\* rendered with the default props after a classical triple: the curves are
\* those of a later accumulator value, with a reflected and an evanescent
\* curve and no transmitted one (T is below 0.001)
C25_Witness ==
  /\ wave.args = Triple(DEFAULT_TUNNELING_PARAMS)
  /\ wave.curves.time > 0
  /\ wave.curves.reflected > 0
  /\ wave.curves.evanescent > 0
  /\ wave.curves.transmitted = 0

\* C26: a particle's trail buffer never holds more than TRAIL_LENGTH (20)
\* positions: a push to a full buffer drops the oldest position, and the
\* positions that remain are in the order they were recorded (the buffer is
\* the tail of everything ever pushed).
C26_TrailBounded ==
  \A id \in DOMAIN trail :
    LET pts == trail[id].points
        rec == trail[id].recorded
    IN  /\ Len(pts) <= TRAIL_LENGTH
        /\ Len(pts) = Min(Len(rec), TRAIL_LENGTH)
        /\ \A k \in 1..Len(pts) : pts[k] = rec[Len(rec) - Len(pts) + k]

\* more than TRAIL_LENGTH positions have been pushed to a full buffer, whose
\* oldest one is no longer the first position recorded
C26_Witness ==
  \E id \in DOMAIN trail :
    /\ Len(trail[id].recorded) > TRAIL_LENGTH + 1
    /\ Len(trail[id].points) = TRAIL_LENGTH
    /\ trail[id].points[1] > trail[id].recorded[2]

\* C27: degenerate parameters are computed with, never rejected.  With a
\* non-positive barrierWidth, barrierHeight or intensity no live particle was
\* spawned by a frame at intensity 0, every live particle has a position and
\* an outcome, and every snapshot reported carries a probability, which is 1
\* for a barrier of width 0 or less and for one of height 0 or less.
C27_DegenerateComputed ==
  /\ \A p \in {particles[i] : i \in 1..Len(particles)} :
        /\ p.rate # 0
        /\ p.x \in Int /\ p.willTunnel \in BOOLEAN
  /\ \A r \in reported :
        /\ r.theoreticalT \in 0..PScale
        /\ (params.barrierWidth <= 0 \/ params.barrierHeight <= 0)
             => r.theoreticalT = PScale

\* a barrier of width 0 and intensity 0: a particle spawned at a negative
\* intensity has crossed the barrier and left, and frames have run past the
\* longest spawn interval followed at intensity 0 without a spawn
C27_Witness ==
  /\ params.intensity = 0 /\ params.barrierWidth = 0
  /\ params.barrierHeight = 80
  /\ pending = {} /\ reported # {}
  /\ sinceSpawn = SinceCap /\ spawns = 1 /\ particles = << >>
  /\ \E g \in gone : g.path = <<"incident", "barrier", "transmitted">>

\* C28: since the last reset of the statistics, reflected is the number of
\* particles that have made the incident -> reflected transition and tunneled
\* the number of transmitted particles that have reached targetX
\* (hitFlashDone set), live or removed; no particle is counted twice, and
\* every particle removed at the end of its trajectory was counted once.
C28_CountsMatchTransitions ==
  /\ stats.reflected = transitions.reflected
  /\ stats.tunneled = transitions.tunneled
  /\ stats.totalParticles = transitions.reflected + transitions.tunneled
  /\ \A p \in {particles[i] : i \in 1..Len(particles)} :
        /\ p.reflectedCalls + p.tunneledCalls <= 1
        /\ p.reflectedCalls = 1 <=> p.phase = "reflected"
        /\ p.tunneledCalls = 1 <=> p.hitFlashDone
  /\ \A g \in gone :
        \/ g.reflectedCalls + g.tunneledCalls = 1
        \/ /\ g.reflectedCalls + g.tunneledCalls = 0
           /\ g.phase \in {"incident", "barrier", "transmitted"}

\* after a reset, one particle has reached targetX and has been removed at
\* the end of its fade-out, and another has turned back and is still live
C28_Witness ==
  /\ prevRef # Triple(DEFAULT_TUNNELING_PARAMS)
  /\ stats.reflected = 1 /\ stats.tunneled = 1
  /\ \E g \in gone : g.phase = "transmitted" /\ g.tunneledCalls = 1
  /\ \E i \in 1..Len(particles) : particles[i].phase = "reflected"

\* C29: with frames that keep being delivered (delta > 0) and parameters that
\* stay fixed, every spawned particle eventually leaves the live set, and the
\* particles that have left are the reflected ones and the ones that have
\* crossed the barrier and reached targetX.  The parameters stay fixed, and
\* no frame waits for the spawn budget, once intensity is 0: nothing is
\* spawned from then on, and the live set becomes empty.
C29_EveryParticleLeaves ==
  /\ params.intensity = 0 ~> particles = << >>
  /\ [](\A g \in gone :
          \/ g.path = <<"incident", "reflected">>
          \/ /\ g.path = <<"incident", "barrier", "transmitted">>
             /\ g.tunneledCalls = 1)

\* the particles spawned have all left, one reflected and one after reaching
\* targetX, under a rate turned down to 0
C29_Witness ==
  /\ params.intensity = 0 /\ particles = << >> /\ spawns = MaxSpawns
  /\ \E g \in gone : g.path = <<"incident", "reflected">>
  /\ \E g \in gone : g.tunneledCalls = 1

\* C30: for every (energy, barrierHeight, barrierWidth),
\* calculateTunnelingProbability returns the value of the probability field
\* of useTunneling, so the theoretical probability of the statistics is the
\* one spawnParticle draws willTunnel with: willTunnel is true iff
\* isClassical or the uniform draw is below that probability.
C30_SameProbability ==
  physics.done =>
    /\ physics.calc = physics.hook.probability
    /\ \A u \in RandDraws \cup ({physics.calc - 1, physics.calc}
                                 \cap (0..(PScale - 1))) :
         NewParticle(1, [DEFAULT_TUNNELING_PARAMS EXCEPT
                           !.particleEnergy = physics.args[1],
                           !.barrierHeight = physics.args[2],
                           !.barrierWidth = physics.args[3]], u, 240).willTunnel
         <=> (physics.hook.isClassical \/ u < physics.calc)

\* both have been evaluated below the barrier, for a probability strictly
\* between 0 and 1 that separates the draws
C30_Witness ==
  /\ physics.done
  /\ physics.args = <<50, 80, 1>>
  /\ ~physics.hook.isClassical
  /\ physics.calc > 1 /\ physics.calc < PScale - 1

====
